---------------------------- MODULE Spec2Model ----------------------------
(***************************************************************************)
(* A model of sxcv.py (computer_vision/01-introduction): the process-wide  *)
(* debug flag and environment keywords, the image display dispatcher       *)
(* (ddisplay / display_sixel / display) and the text helpers (examine,     *)
(* describe).                                                              *)
(*                                                                         *)
(* Python strings are sequences of one-character strings where their       *)
(* length or their characters matter (the SXCV value, the text returned by *)
(* examine), and sequences of fragments whose concatenation is the string  *)
(* elsewhere.  Every public function is one action; the calls it makes     *)
(* (debugging, display_sixel, display) are operators applied inside it.    *)
(***************************************************************************)
EXTENDS Integers, Sequences, FiniteSets, TLC

VARIABLES environ, systype, DEBUG, ENVIRONMENT, files, nextfn, last, fmt

vars == <<environ, systype, DEBUG, ENVIRONMENT, files, nextfn, last, fmt>>

(***************************************************************************)
(* Bounds of the model.                                                    *)
(***************************************************************************)
\* the SXCV value holds at most this many words
MaxWords == 2
\* at most this many temporary file names are handed out in one behaviour
MaxTmp == 1

(***************************************************************************)
(* Characters and strings.                                                 *)
(***************************************************************************)
Chr_d == <<"d", "e", "b", "u", "g">>
Chr_s16 == <<"s", "i", "x", "e", "l", "1", "6">>
Chr_s256 == <<"s", "i", "x", "e", "l", "2", "5", "6">>

\* A character of the model is a string of one character when it is a
\* printable ASCII character or one of "\t", "\n", "\r", "\f", and the
\* string "U+" followed by the four to six hexadecimal digits of its code
\* point when it is any other character ("U+000B" is "\v", "U+00C9" is
\* E acute, "U+0060" the grave accent, which a string here cannot hold).
PrintableAscii ==
    <<
      " ", "!", "\"", "#", "$", "%", "&", "'", "(", ")", "*", "+",
      ",", "-", ".", "/", "0", "1", "2", "3", "4", "5", "6", "7",
      "8", "9", ":", ";", "<", "=", ">", "?", "@", "A", "B", "C",
      "D", "E", "F", "G", "H", "I", "J", "K", "L", "M", "N", "O",
      "P", "Q", "R", "S", "T", "U", "V", "W", "X", "Y", "Z", "[",
      "\\", "]", "^", "_", "U+0060", "a", "b", "c", "d", "e", "f", "g",
      "h", "i", "j", "k", "l", "m", "n", "o", "p", "q", "r", "s",
      "t", "u", "v", "w", "x", "y", "z", "{", "|", "}", "~"
    >>

HexDigits ==
    <<"0", "1", "2", "3", "4", "5", "6", "7", "8", "9", "A", "B", "C", "D", "E", "F">>

RECURSIVE HexValue(_)
HexValue(h) ==
    IF Len(h) = 0 THEN 0
    ELSE 16 * HexValue(SubSeq(h, 1, Len(h) - 1))
         + (CHOOSE k \in 0..15 : HexDigits[k + 1] = SubSeq(h, Len(h), Len(h)))

RECURSIVE HexOf(_, _)
HexOf(n, width) ==
    IF n = 0 /\ width <= 0 THEN ""
    ELSE HexOf(n \div 16, width - 1) \o HexDigits[(n % 16) + 1]

\* ord (c)
Ord(c) ==
    IF Len(c) > 1 THEN HexValue(SubSeq(c, 3, Len(c)))
    ELSE IF c = "\t" THEN 9
    ELSE IF c = "\n" THEN 10
    ELSE IF c = "\f" THEN 12
    ELSE IF c = "\r" THEN 13
    ELSE 31 + (CHOOSE k \in 1..Len(PrintableAscii) : PrintableAscii[k] = c)

\* chr (n)
Chr(n) ==
    IF n >= 32 /\ n <= 126 THEN PrintableAscii[n - 31]
    ELSE IF n = 9 THEN "\t"
    ELSE IF n = 10 THEN "\n"
    ELSE IF n = 12 THEN "\f"
    ELSE IF n = 13 THEN "\r"
    ELSE "U+" \o HexOf(n, 4)

RECURSIVE Concat(_)
Concat(ss) == IF ss = <<>> THEN <<>> ELSE Head(ss) \o Concat(Tail(ss))

\* The lower-case mapping of single characters (Unicode 14.0, the tables of
\* Python 3.11): <<lo, hi, step, d>> stands for the code points lo, lo + step,
\* ..., hi, each of which lowers to itself + d.  U+0130 and U+03A3 are not
\* in it: the first lowers to two characters, the second by its context.
LowerRanges ==
    {
      <<65, 90, 1, 32>>, <<192, 214, 1, 32>>, <<216, 222, 1, 32>>,
      <<256, 302, 2, 1>>, <<306, 310, 2, 1>>, <<313, 327, 2, 1>>,
      <<330, 374, 2, 1>>, <<376, 376, 1, 0 - 121>>, <<377, 381, 2, 1>>,
      <<385, 385, 1, 210>>, <<386, 388, 2, 1>>, <<390, 390, 1, 206>>,
      <<391, 391, 1, 1>>, <<393, 394, 1, 205>>, <<395, 395, 1, 1>>,
      <<398, 398, 1, 79>>, <<399, 399, 1, 202>>, <<400, 400, 1, 203>>,
      <<401, 401, 1, 1>>, <<403, 403, 1, 205>>, <<404, 404, 1, 207>>,
      <<406, 406, 1, 211>>, <<407, 407, 1, 209>>, <<408, 408, 1, 1>>,
      <<412, 412, 1, 211>>, <<413, 413, 1, 213>>, <<415, 415, 1, 214>>,
      <<416, 420, 2, 1>>, <<422, 422, 1, 218>>, <<423, 423, 1, 1>>,
      <<425, 425, 1, 218>>, <<428, 428, 1, 1>>, <<430, 430, 1, 218>>,
      <<431, 431, 1, 1>>, <<433, 434, 1, 217>>, <<435, 437, 2, 1>>,
      <<439, 439, 1, 219>>, <<440, 440, 1, 1>>, <<444, 444, 1, 1>>,
      <<452, 452, 1, 2>>, <<453, 453, 1, 1>>, <<455, 455, 1, 2>>,
      <<456, 456, 1, 1>>, <<458, 458, 1, 2>>, <<459, 475, 2, 1>>,
      <<478, 494, 2, 1>>, <<497, 497, 1, 2>>, <<498, 500, 2, 1>>,
      <<502, 502, 1, 0 - 97>>, <<503, 503, 1, 0 - 56>>, <<504, 542, 2, 1>>,
      <<544, 544, 1, 0 - 130>>, <<546, 562, 2, 1>>, <<570, 570, 1, 10795>>,
      <<571, 571, 1, 1>>, <<573, 573, 1, 0 - 163>>, <<574, 574, 1, 10792>>,
      <<577, 577, 1, 1>>, <<579, 579, 1, 0 - 195>>, <<580, 580, 1, 69>>,
      <<581, 581, 1, 71>>, <<582, 590, 2, 1>>, <<880, 882, 2, 1>>,
      <<886, 886, 1, 1>>, <<895, 895, 1, 116>>, <<902, 902, 1, 38>>,
      <<904, 906, 1, 37>>, <<908, 908, 1, 64>>, <<910, 911, 1, 63>>,
      <<913, 929, 1, 32>>, <<932, 939, 1, 32>>, <<975, 975, 1, 8>>,
      <<984, 1006, 2, 1>>, <<1012, 1012, 1, 0 - 60>>, <<1015, 1015, 1, 1>>,
      <<1017, 1017, 1, 0 - 7>>, <<1018, 1018, 1, 1>>,
      <<1021, 1023, 1, 0 - 130>>, <<1024, 1039, 1, 80>>,
      <<1040, 1071, 1, 32>>, <<1120, 1152, 2, 1>>, <<1162, 1214, 2, 1>>,
      <<1216, 1216, 1, 15>>, <<1217, 1229, 2, 1>>, <<1232, 1326, 2, 1>>,
      <<1329, 1366, 1, 48>>, <<4256, 4293, 1, 7264>>,
      <<4295, 4295, 1, 7264>>, <<4301, 4301, 1, 7264>>,
      <<5024, 5103, 1, 38864>>, <<5104, 5109, 1, 8>>,
      <<7312, 7354, 1, 0 - 3008>>, <<7357, 7359, 1, 0 - 3008>>,
      <<7680, 7828, 2, 1>>, <<7838, 7838, 1, 0 - 7615>>,
      <<7840, 7934, 2, 1>>, <<7944, 7951, 1, 0 - 8>>,
      <<7960, 7965, 1, 0 - 8>>, <<7976, 7983, 1, 0 - 8>>,
      <<7992, 7999, 1, 0 - 8>>, <<8008, 8013, 1, 0 - 8>>,
      <<8025, 8031, 2, 0 - 8>>, <<8040, 8047, 1, 0 - 8>>,
      <<8072, 8079, 1, 0 - 8>>, <<8088, 8095, 1, 0 - 8>>,
      <<8104, 8111, 1, 0 - 8>>, <<8120, 8121, 1, 0 - 8>>,
      <<8122, 8123, 1, 0 - 74>>, <<8124, 8124, 1, 0 - 9>>,
      <<8136, 8139, 1, 0 - 86>>, <<8140, 8140, 1, 0 - 9>>,
      <<8152, 8153, 1, 0 - 8>>, <<8154, 8155, 1, 0 - 100>>,
      <<8168, 8169, 1, 0 - 8>>, <<8170, 8171, 1, 0 - 112>>,
      <<8172, 8172, 1, 0 - 7>>, <<8184, 8185, 1, 0 - 128>>,
      <<8186, 8187, 1, 0 - 126>>, <<8188, 8188, 1, 0 - 9>>,
      <<8486, 8486, 1, 0 - 7517>>, <<8490, 8490, 1, 0 - 8383>>,
      <<8491, 8491, 1, 0 - 8262>>, <<8498, 8498, 1, 28>>,
      <<8544, 8559, 1, 16>>, <<8579, 8579, 1, 1>>, <<9398, 9423, 1, 26>>,
      <<11264, 11311, 1, 48>>, <<11360, 11360, 1, 1>>,
      <<11362, 11362, 1, 0 - 10743>>, <<11363, 11363, 1, 0 - 3814>>,
      <<11364, 11364, 1, 0 - 10727>>, <<11367, 11371, 2, 1>>,
      <<11373, 11373, 1, 0 - 10780>>, <<11374, 11374, 1, 0 - 10749>>,
      <<11375, 11375, 1, 0 - 10783>>, <<11376, 11376, 1, 0 - 10782>>,
      <<11378, 11378, 1, 1>>, <<11381, 11381, 1, 1>>,
      <<11390, 11391, 1, 0 - 10815>>, <<11392, 11490, 2, 1>>,
      <<11499, 11501, 2, 1>>, <<11506, 11506, 1, 1>>, <<42560, 42604, 2, 1>>,
      <<42624, 42650, 2, 1>>, <<42786, 42798, 2, 1>>, <<42802, 42862, 2, 1>>,
      <<42873, 42875, 2, 1>>, <<42877, 42877, 1, 0 - 35332>>,
      <<42878, 42886, 2, 1>>, <<42891, 42891, 1, 1>>,
      <<42893, 42893, 1, 0 - 42280>>, <<42896, 42898, 2, 1>>,
      <<42902, 42920, 2, 1>>, <<42922, 42922, 1, 0 - 42308>>,
      <<42923, 42923, 1, 0 - 42319>>, <<42924, 42924, 1, 0 - 42315>>,
      <<42925, 42925, 1, 0 - 42305>>, <<42926, 42926, 1, 0 - 42308>>,
      <<42928, 42928, 1, 0 - 42258>>, <<42929, 42929, 1, 0 - 42282>>,
      <<42930, 42930, 1, 0 - 42261>>, <<42931, 42931, 1, 928>>,
      <<42932, 42946, 2, 1>>, <<42948, 42948, 1, 0 - 48>>,
      <<42949, 42949, 1, 0 - 42307>>, <<42950, 42950, 1, 0 - 35384>>,
      <<42951, 42953, 2, 1>>, <<42960, 42960, 1, 1>>, <<42966, 42968, 2, 1>>,
      <<42997, 42997, 1, 1>>, <<65313, 65338, 1, 32>>,
      <<66560, 66599, 1, 40>>, <<66736, 66771, 1, 40>>,
      <<66928, 66964, 2, 39>>, <<66929, 66937, 2, 39>>,
      <<66941, 66953, 2, 39>>, <<66957, 66961, 2, 39>>,
      <<66965, 66965, 1, 39>>, <<68736, 68786, 1, 64>>,
      <<71840, 71871, 1, 32>>, <<93760, 93791, 1, 32>>,
      <<125184, 125217, 1, 34>>
    }

\* the code points with the property Cased, as ranges <<lo, hi>>
CasedRanges ==
    {
      <<65, 90>>, <<97, 122>>, <<170, 170>>, <<181, 181>>, <<186, 186>>,
      <<192, 214>>, <<216, 246>>, <<248, 442>>, <<444, 447>>, <<452, 659>>,
      <<661, 696>>, <<704, 705>>, <<736, 740>>, <<837, 837>>, <<880, 883>>,
      <<886, 887>>, <<890, 893>>, <<895, 895>>, <<902, 902>>, <<904, 906>>,
      <<908, 908>>, <<910, 929>>, <<931, 1013>>, <<1015, 1153>>,
      <<1162, 1327>>, <<1329, 1366>>, <<1376, 1416>>, <<4256, 4293>>,
      <<4295, 4295>>, <<4301, 4301>>, <<4304, 4346>>, <<4349, 4351>>,
      <<5024, 5109>>, <<5112, 5117>>, <<7296, 7304>>, <<7312, 7354>>,
      <<7357, 7359>>, <<7424, 7615>>, <<7680, 7957>>, <<7960, 7965>>,
      <<7968, 8005>>, <<8008, 8013>>, <<8016, 8023>>, <<8025, 8025>>,
      <<8027, 8027>>, <<8029, 8029>>, <<8031, 8061>>, <<8064, 8116>>,
      <<8118, 8124>>, <<8126, 8126>>, <<8130, 8132>>, <<8134, 8140>>,
      <<8144, 8147>>, <<8150, 8155>>, <<8160, 8172>>, <<8178, 8180>>,
      <<8182, 8188>>, <<8305, 8305>>, <<8319, 8319>>, <<8336, 8348>>,
      <<8450, 8450>>, <<8455, 8455>>, <<8458, 8467>>, <<8469, 8469>>,
      <<8473, 8477>>, <<8484, 8484>>, <<8486, 8486>>, <<8488, 8488>>,
      <<8490, 8493>>, <<8495, 8500>>, <<8505, 8505>>, <<8508, 8511>>,
      <<8517, 8521>>, <<8526, 8526>>, <<8544, 8575>>, <<8579, 8580>>,
      <<9398, 9449>>, <<11264, 11492>>, <<11499, 11502>>, <<11506, 11507>>,
      <<11520, 11557>>, <<11559, 11559>>, <<11565, 11565>>, <<42560, 42605>>,
      <<42624, 42653>>, <<42786, 42887>>, <<42891, 42894>>, <<42896, 42954>>,
      <<42960, 42961>>, <<42963, 42963>>, <<42965, 42969>>, <<42997, 42998>>,
      <<43000, 43002>>, <<43824, 43866>>, <<43868, 43880>>, <<43888, 43967>>,
      <<64256, 64262>>, <<64275, 64279>>, <<65313, 65338>>, <<65345, 65370>>,
      <<66560, 66639>>, <<66736, 66771>>, <<66776, 66811>>, <<66928, 66938>>,
      <<66940, 66954>>, <<66956, 66962>>, <<66964, 66965>>, <<66967, 66977>>,
      <<66979, 66993>>, <<66995, 67001>>, <<67003, 67004>>, <<67456, 67456>>,
      <<67459, 67461>>, <<67463, 67504>>, <<67506, 67514>>, <<68736, 68786>>,
      <<68800, 68850>>, <<71840, 71903>>, <<93760, 93823>>,
      <<119808, 119892>>, <<119894, 119964>>, <<119966, 119967>>,
      <<119970, 119970>>, <<119973, 119974>>, <<119977, 119980>>,
      <<119982, 119993>>, <<119995, 119995>>, <<119997, 120003>>,
      <<120005, 120069>>, <<120071, 120074>>, <<120077, 120084>>,
      <<120086, 120092>>, <<120094, 120121>>, <<120123, 120126>>,
      <<120128, 120132>>, <<120134, 120134>>, <<120138, 120144>>,
      <<120146, 120485>>, <<120488, 120512>>, <<120514, 120538>>,
      <<120540, 120570>>, <<120572, 120596>>, <<120598, 120628>>,
      <<120630, 120654>>, <<120656, 120686>>, <<120688, 120712>>,
      <<120714, 120744>>, <<120746, 120770>>, <<120772, 120779>>,
      <<122624, 122633>>, <<122635, 122654>>, <<125184, 125251>>,
      <<127280, 127305>>, <<127312, 127337>>, <<127344, 127369>>
    }

\* the code points with the property Case_Ignorable, as ranges <<lo, hi>>
CaseIgnorableRanges ==
    {
      <<39, 39>>, <<46, 46>>, <<58, 58>>, <<94, 94>>, <<96, 96>>,
      <<168, 168>>, <<173, 173>>, <<175, 175>>, <<180, 180>>, <<183, 184>>,
      <<688, 879>>, <<884, 885>>, <<890, 890>>, <<900, 901>>, <<903, 903>>,
      <<1155, 1161>>, <<1369, 1369>>, <<1375, 1375>>, <<1425, 1469>>,
      <<1471, 1471>>, <<1473, 1474>>, <<1476, 1477>>, <<1479, 1479>>,
      <<1524, 1524>>, <<1536, 1541>>, <<1552, 1562>>, <<1564, 1564>>,
      <<1600, 1600>>, <<1611, 1631>>, <<1648, 1648>>, <<1750, 1757>>,
      <<1759, 1768>>, <<1770, 1773>>, <<1807, 1807>>, <<1809, 1809>>,
      <<1840, 1866>>, <<1958, 1968>>, <<2027, 2037>>, <<2042, 2042>>,
      <<2045, 2045>>, <<2070, 2093>>, <<2137, 2139>>, <<2184, 2184>>,
      <<2192, 2193>>, <<2200, 2207>>, <<2249, 2306>>, <<2362, 2362>>,
      <<2364, 2364>>, <<2369, 2376>>, <<2381, 2381>>, <<2385, 2391>>,
      <<2402, 2403>>, <<2417, 2417>>, <<2433, 2433>>, <<2492, 2492>>,
      <<2497, 2500>>, <<2509, 2509>>, <<2530, 2531>>, <<2558, 2558>>,
      <<2561, 2562>>, <<2620, 2620>>, <<2625, 2626>>, <<2631, 2632>>,
      <<2635, 2637>>, <<2641, 2641>>, <<2672, 2673>>, <<2677, 2677>>,
      <<2689, 2690>>, <<2748, 2748>>, <<2753, 2757>>, <<2759, 2760>>,
      <<2765, 2765>>, <<2786, 2787>>, <<2810, 2815>>, <<2817, 2817>>,
      <<2876, 2876>>, <<2879, 2879>>, <<2881, 2884>>, <<2893, 2893>>,
      <<2901, 2902>>, <<2914, 2915>>, <<2946, 2946>>, <<3008, 3008>>,
      <<3021, 3021>>, <<3072, 3072>>, <<3076, 3076>>, <<3132, 3132>>,
      <<3134, 3136>>, <<3142, 3144>>, <<3146, 3149>>, <<3157, 3158>>,
      <<3170, 3171>>, <<3201, 3201>>, <<3260, 3260>>, <<3263, 3263>>,
      <<3270, 3270>>, <<3276, 3277>>, <<3298, 3299>>, <<3328, 3329>>,
      <<3387, 3388>>, <<3393, 3396>>, <<3405, 3405>>, <<3426, 3427>>,
      <<3457, 3457>>, <<3530, 3530>>, <<3538, 3540>>, <<3542, 3542>>,
      <<3633, 3633>>, <<3636, 3642>>, <<3654, 3662>>, <<3761, 3761>>,
      <<3764, 3772>>, <<3782, 3782>>, <<3784, 3789>>, <<3864, 3865>>,
      <<3893, 3893>>, <<3895, 3895>>, <<3897, 3897>>, <<3953, 3966>>,
      <<3968, 3972>>, <<3974, 3975>>, <<3981, 3991>>, <<3993, 4028>>,
      <<4038, 4038>>, <<4141, 4144>>, <<4146, 4151>>, <<4153, 4154>>,
      <<4157, 4158>>, <<4184, 4185>>, <<4190, 4192>>, <<4209, 4212>>,
      <<4226, 4226>>, <<4229, 4230>>, <<4237, 4237>>, <<4253, 4253>>,
      <<4348, 4348>>, <<4957, 4959>>, <<5906, 5908>>, <<5938, 5939>>,
      <<5970, 5971>>, <<6002, 6003>>, <<6068, 6069>>, <<6071, 6077>>,
      <<6086, 6086>>, <<6089, 6099>>, <<6103, 6103>>, <<6109, 6109>>,
      <<6155, 6159>>, <<6211, 6211>>, <<6277, 6278>>, <<6313, 6313>>,
      <<6432, 6434>>, <<6439, 6440>>, <<6450, 6450>>, <<6457, 6459>>,
      <<6679, 6680>>, <<6683, 6683>>, <<6742, 6742>>, <<6744, 6750>>,
      <<6752, 6752>>, <<6754, 6754>>, <<6757, 6764>>, <<6771, 6780>>,
      <<6783, 6783>>, <<6823, 6823>>, <<6832, 6862>>, <<6912, 6915>>,
      <<6964, 6964>>, <<6966, 6970>>, <<6972, 6972>>, <<6978, 6978>>,
      <<7019, 7027>>, <<7040, 7041>>, <<7074, 7077>>, <<7080, 7081>>,
      <<7083, 7085>>, <<7142, 7142>>, <<7144, 7145>>, <<7149, 7149>>,
      <<7151, 7153>>, <<7212, 7219>>, <<7222, 7223>>, <<7288, 7293>>,
      <<7376, 7378>>, <<7380, 7392>>, <<7394, 7400>>, <<7405, 7405>>,
      <<7412, 7412>>, <<7416, 7417>>, <<7468, 7530>>, <<7544, 7544>>,
      <<7579, 7679>>, <<8125, 8125>>, <<8127, 8129>>, <<8141, 8143>>,
      <<8157, 8159>>, <<8173, 8175>>, <<8189, 8190>>, <<8203, 8207>>,
      <<8216, 8217>>, <<8228, 8228>>, <<8231, 8231>>, <<8234, 8238>>,
      <<8288, 8292>>, <<8294, 8303>>, <<8305, 8305>>, <<8319, 8319>>,
      <<8336, 8348>>, <<8400, 8432>>, <<11388, 11389>>, <<11503, 11505>>,
      <<11631, 11631>>, <<11647, 11647>>, <<11744, 11775>>, <<11823, 11823>>,
      <<12293, 12293>>, <<12330, 12333>>, <<12337, 12341>>, <<12347, 12347>>,
      <<12441, 12446>>, <<12540, 12542>>, <<40981, 40981>>, <<42232, 42237>>,
      <<42508, 42508>>, <<42607, 42610>>, <<42612, 42621>>, <<42623, 42623>>,
      <<42652, 42655>>, <<42736, 42737>>, <<42752, 42785>>, <<42864, 42864>>,
      <<42888, 42890>>, <<42994, 42996>>, <<43000, 43001>>, <<43010, 43010>>,
      <<43014, 43014>>, <<43019, 43019>>, <<43045, 43046>>, <<43052, 43052>>,
      <<43204, 43205>>, <<43232, 43249>>, <<43263, 43263>>, <<43302, 43309>>,
      <<43335, 43345>>, <<43392, 43394>>, <<43443, 43443>>, <<43446, 43449>>,
      <<43452, 43453>>, <<43471, 43471>>, <<43493, 43494>>, <<43561, 43566>>,
      <<43569, 43570>>, <<43573, 43574>>, <<43587, 43587>>, <<43596, 43596>>,
      <<43632, 43632>>, <<43644, 43644>>, <<43696, 43696>>, <<43698, 43700>>,
      <<43703, 43704>>, <<43710, 43711>>, <<43713, 43713>>, <<43741, 43741>>,
      <<43756, 43757>>, <<43763, 43764>>, <<43766, 43766>>, <<43867, 43871>>,
      <<43881, 43883>>, <<44005, 44005>>, <<44008, 44008>>, <<44013, 44013>>,
      <<64286, 64286>>, <<64434, 64450>>, <<65024, 65039>>, <<65043, 65043>>,
      <<65056, 65071>>, <<65106, 65106>>, <<65109, 65109>>, <<65279, 65279>>,
      <<65287, 65287>>, <<65294, 65294>>, <<65306, 65306>>, <<65342, 65342>>,
      <<65344, 65344>>, <<65392, 65392>>, <<65438, 65439>>, <<65507, 65507>>,
      <<65529, 65531>>, <<66045, 66045>>, <<66272, 66272>>, <<66422, 66426>>,
      <<67456, 67461>>, <<67463, 67504>>, <<67506, 67514>>, <<68097, 68099>>,
      <<68101, 68102>>, <<68108, 68111>>, <<68152, 68154>>, <<68159, 68159>>,
      <<68325, 68326>>, <<68900, 68903>>, <<69291, 69292>>, <<69446, 69456>>,
      <<69506, 69509>>, <<69633, 69633>>, <<69688, 69702>>, <<69744, 69744>>,
      <<69747, 69748>>, <<69759, 69761>>, <<69811, 69814>>, <<69817, 69818>>,
      <<69821, 69821>>, <<69826, 69826>>, <<69837, 69837>>, <<69888, 69890>>,
      <<69927, 69931>>, <<69933, 69940>>, <<70003, 70003>>, <<70016, 70017>>,
      <<70070, 70078>>, <<70089, 70092>>, <<70095, 70095>>, <<70191, 70193>>,
      <<70196, 70196>>, <<70198, 70199>>, <<70206, 70206>>, <<70367, 70367>>,
      <<70371, 70378>>, <<70400, 70401>>, <<70459, 70460>>, <<70464, 70464>>,
      <<70502, 70508>>, <<70512, 70516>>, <<70712, 70719>>, <<70722, 70724>>,
      <<70726, 70726>>, <<70750, 70750>>, <<70835, 70840>>, <<70842, 70842>>,
      <<70847, 70848>>, <<70850, 70851>>, <<71090, 71093>>, <<71100, 71101>>,
      <<71103, 71104>>, <<71132, 71133>>, <<71219, 71226>>, <<71229, 71229>>,
      <<71231, 71232>>, <<71339, 71339>>, <<71341, 71341>>, <<71344, 71349>>,
      <<71351, 71351>>, <<71453, 71455>>, <<71458, 71461>>, <<71463, 71467>>,
      <<71727, 71735>>, <<71737, 71738>>, <<71995, 71996>>, <<71998, 71998>>,
      <<72003, 72003>>, <<72148, 72151>>, <<72154, 72155>>, <<72160, 72160>>,
      <<72193, 72202>>, <<72243, 72248>>, <<72251, 72254>>, <<72263, 72263>>,
      <<72273, 72278>>, <<72281, 72283>>, <<72330, 72342>>, <<72344, 72345>>,
      <<72752, 72758>>, <<72760, 72765>>, <<72767, 72767>>, <<72850, 72871>>,
      <<72874, 72880>>, <<72882, 72883>>, <<72885, 72886>>, <<73009, 73014>>,
      <<73018, 73018>>, <<73020, 73021>>, <<73023, 73029>>, <<73031, 73031>>,
      <<73104, 73105>>, <<73109, 73109>>, <<73111, 73111>>, <<73459, 73460>>,
      <<78896, 78904>>, <<92912, 92916>>, <<92976, 92982>>, <<92992, 92995>>,
      <<94031, 94031>>, <<94095, 94111>>, <<94176, 94177>>, <<94179, 94180>>,
      <<110576, 110579>>, <<110581, 110587>>, <<110589, 110590>>,
      <<113821, 113822>>, <<113824, 113827>>, <<118528, 118573>>,
      <<118576, 118598>>, <<119143, 119145>>, <<119155, 119170>>,
      <<119173, 119179>>, <<119210, 119213>>, <<119362, 119364>>,
      <<121344, 121398>>, <<121403, 121452>>, <<121461, 121461>>,
      <<121476, 121476>>, <<121499, 121503>>, <<121505, 121519>>,
      <<122880, 122886>>, <<122888, 122904>>, <<122907, 122913>>,
      <<122915, 122916>>, <<122918, 122922>>, <<123184, 123197>>,
      <<123566, 123566>>, <<123628, 123631>>, <<125136, 125142>>,
      <<125252, 125259>>, <<127995, 127999>>, <<917505, 917505>>,
      <<917536, 917631>>, <<917760, 917999>>
    }

IsCased(c) == \E n \in {Ord(c)} : \E r \in CasedRanges : r[1] <= n /\ n <= r[2]

IsCaseIgnorable(c) ==
    \E n \in {Ord(c)} : \E r \in CaseIgnorableRanges : r[1] <= n /\ n <= r[2]

\* the code points to which code point n, other than that of capital sigma,
\* lowers: one or, for U+0130, two
LowerCode(n) ==
    IF n = 304 THEN <<105, 775>>
    ELSE IF \E r \in LowerRanges : r[1] <= n /\ n <= r[2] /\ (n - r[1]) % r[3] = 0
    THEN <<n + (CHOOSE r \in LowerRanges :
                    r[1] <= n /\ n <= r[2] /\ (n - r[1]) % r[3] = 0)[4]>>
    ELSE <<n>>

\* the lowering of one character other than capital sigma, a string of one
\* character or, for U+0130, of two
LowerChar(c) ==
    LET to == CHOOSE t \in {LowerCode(Ord(c))} : TRUE
    IN [k \in 1..Len(to) |-> Chr(to[k])]

\* the lowering of the capital sigma at place i of s: the final form U+03C2
\* when a cased character comes before it and none after it, case-ignorable
\* characters skipped, and U+03C3 otherwise
LowerSigma(s, i) ==
    LET before == { j \in 1..(i - 1) : ~IsCaseIgnorable(s[j]) }
        after == { j \in (i + 1)..Len(s) : ~IsCaseIgnorable(s[j]) }
        last_before == CHOOSE j \in before : \A k \in before : k <= j
        first_after == CHOOSE j \in after : \A k \in after : j <= k
        final == /\ before # {}
                 /\ IsCased(s[last_before])
                 /\ after = {} \/ ~IsCased(s[first_after])
    IN IF final THEN Chr(962) ELSE Chr(963)

\* str.lower
Lower(s) ==
    Concat([i \in 1..Len(s) |->
               IF s[i] = "U+03A3" THEN <<LowerSigma(s, i)>> ELSE LowerChar(s[i])])

\* the characters at which str.split () splits: those of str.isspace ()
Whitespace ==
    { " ", "\t", "\n", "\r", "\f", "U+000B", "U+001C", "U+001D", "U+001E", "U+001F",
      "U+0085", "U+00A0", "U+1680", "U+2000", "U+2001", "U+2002", "U+2003", "U+2004",
      "U+2005", "U+2006", "U+2007", "U+2008", "U+2009", "U+200A", "U+2028", "U+2029",
      "U+202F", "U+205F", "U+3000" }

IsSpace(c) == c \in Whitespace

\* str.split with no argument: the maximal runs of non-whitespace characters
RECURSIVE SplitFrom(_, _, _)
SplitFrom(s, i, cur) ==
    IF i > Len(s)
    THEN IF cur = <<>> THEN <<>> ELSE <<cur>>
    ELSE IF IsSpace(s[i])
         THEN IF cur = <<>> THEN SplitFrom(s, i + 1, <<>>)
                            ELSE <<cur>> \o SplitFrom(s, i + 1, <<>>)
         ELSE SplitFrom(s, i + 1, Append(cur, s[i]))

Split(s) == SplitFrom(s, 1, <<>>)

\* x in list
InList(x, l) == \E i \in 1..Len(l) : l[i] = x

(***************************************************************************)
(* The values the SXCV variable takes in the model: up to MaxWords words,  *)
(* in mixed case, each followed by a run of whitespace.                    *)
(***************************************************************************)
RawWords ==
    { <<"D", "e", "b", "u", "g">>, Chr_s16,
      <<"S", "I", "X", "E", "L", "2", "5", "6">>, <<"U+03A3", "N", "O", "d", "e", "b", "u", "g", "U+00C9", "U+0130", "U+03A3">> }

RawSep(i) == IF i % 2 = 1 THEN <<" ">> ELSE <<"\t", "\r", "U+000B", "\f", "U+00A0">>

RECURSIVE JoinWords(_, _)
JoinWords(ws, i) ==
    IF i > Len(ws) THEN <<>> ELSE ws[i] \o RawSep(i) \o JoinWords(ws, i + 1)

RawValues ==
    { JoinWords(ws, 1) : ws \in UNION { [1..n -> RawWords] : n \in 0..MaxWords } }

\* os.environ restricted to the key "SXCV"
Environs ==
    { [present |-> FALSE, val |-> <<>>] } \cup { [present |-> TRUE, val |-> v] : v \in RawValues }

\* platform.system ()
Systypes == {"Linux", "Darwin", "Windows"}

(***************************************************************************)
(* Module initialization.                                                  *)
(***************************************************************************)
InitENVIRONMENT(env) == IF env.present THEN Split(Lower(env.val)) ELSE <<>>

InitDEBUG(env) == IF env.present THEN InList(Chr_d, InitENVIRONMENT(env)) ELSE FALSE

(***************************************************************************)
(* "%d" % n and "%4d" % n.                                                 *)
(***************************************************************************)
Digit(k) == <<"0", "1", "2", "3", "4", "5", "6", "7", "8", "9">>[k + 1]

RECURSIVE FmtNat(_)
FmtNat(n) == IF n < 10 THEN <<Digit(n)>> ELSE FmtNat(n \div 10) \o <<Digit(n % 10)>>

\* "%d" % n
FmtD(n) == IF n < 0 THEN <<"-">> \o FmtNat(0 - n) ELSE FmtNat(n)

\* s * n for a one-character string s
Rep(c, n) == [i \in 1..n |-> c]

\* "%4d" % n: right-justified in 4 characters, never truncated
Fmt4D(n) == LET d == FmtD(n) IN IF Len(d) >= 4 THEN d ELSE Rep(" ", 4 - Len(d)) \o d

(***************************************************************************)
(* Python values of the dispatcher's arguments.                            *)
(***************************************************************************)
\* None, among the titles (no title string of the model equals it)
None == "<None>"

\* an int argument, and an argument that is not a number
PyInt(n) == [isint |-> TRUE, v |-> n]
PyNone == [isint |-> FALSE, v |-> 0]

\* sys.argv[0]
Argv0 == "argv0"

(***************************************************************************)
(* Side effects.  A call's log lists the effects it had, in order; w is    *)
(* the part of the world a call acts on: the temporary files that exist,   *)
(* the number of names handed out, the log, and the exception that ended   *)
(* the call ("" when none did).  The pop-up windows belong to cv2: the     *)
(* model keeps the calls made on them, in the log.                         *)
(***************************************************************************)
Ev(ev, text, fn, n, res) == [ev |-> ev, text |-> text, fn |-> fn, n |-> n, res |-> res]

World(f, nf) == [files |-> f, nextfn |-> nf, log |-> <<>>, exc |-> ""]

Emit(w, e) == [w EXCEPT !.log = Append(@, e)]

Raise(w, exc) == [w EXCEPT !.exc = exc]

\* the name tempfile hands out: "tmp<k>.png"
TmpName(k) == <<"tmp">> \o FmtD(k) \o <<".png">>

\* what cv2.imwrite (fn, im) can do: write the file and return True
\* ("written"); return False leaving at fn a file it opened and could not
\* fill ("partial"); return False leaving nothing at fn, because it could not
\* open the file or removed what it had opened ("nofile"); reject the array
\* with cv2.error before opening anything ("raised")
ImwriteOutcomes == {"written", "partial", "nofile", "raised"}

\* what os.system can find: img2sixel shows the image; there is no such
\* program; the program exits with an error
SystemOutcomes == {"ok", "missing", "error"}

(***************************************************************************)
(* display_sixel, line by line.                                            *)
(***************************************************************************)
\* line 235: print (title + ":")
SixelPrintTitle(w, title) ==
    IF title = None THEN Raise(w, "TypeError")
    ELSE Emit(w, Ev("print", <<title, ":">>, 0, 0, ""))

\* line 239: fn = tempfile.NamedTemporaryFile (suffix=".png").name
\* The file is created under a fresh name; the object is dropped as soon as
\* its name is read and its finaliser closes and deletes the file.
SixelTempName(w) ==
    LET fn == w.nextfn + 1
        w1 == Emit([w EXCEPT !.nextfn = fn, !.files = @ \cup {fn}],
                   Ev("create", TmpName(fn), fn, 0, ""))
    IN Emit([w1 EXCEPT !.files = @ \ {fn}], Ev("unlink", TmpName(fn), fn, 0, ""))

\* line 240: cv2.imwrite (fn, im); the value returned is dropped
SixelImwrite(w, fn, wr) ==
    LET had == IF fn \in w.files THEN 1 ELSE 0
        e == Ev("imwrite", TmpName(fn), fn, had, wr)
    IN IF wr = "raised" THEN Raise(Emit(w, e), "cv2.error")
       ELSE IF wr = "nofile" THEN Emit([w EXCEPT !.files = @ \ {fn}], e)
       ELSE Emit([w EXCEPT !.files = @ \cup {fn}], e)

\* line 242: cmd = "img2sixel -p %d %s 2>/dev/null" % (levels, fn)
SixelCmd(levels, fn) ==
    <<"img2sixel -p ">> \o FmtD(levels.v) \o <<" ">> \o TmpName(fn) \o <<" 2>/dev/null">>

\* line 243: os.system (cmd); the exit status is dropped
SixelSystem(w, levels, fn, ext) ==
    LET had == IF fn \in w.files THEN 1 ELSE 0
    IN Emit(w, Ev("system", SixelCmd(levels, fn), fn, had, ext))

\* line 244: os.remove (fn)
SixelRemove(w, fn) ==
    IF fn \in w.files
    THEN Emit([w EXCEPT !.files = @ \ {fn}], Ev("remove", TmpName(fn), fn, 1, ""))
    ELSE Raise(Emit(w, Ev("remove", TmpName(fn), fn, 0, "")), "FileNotFoundError")

\* line 247: print ()
SixelPrintBlank(w) == Emit(w, Ev("print", <<>>, 0, 0, ""))

\* display_sixel (im, title, levels); wr and ext are what imwrite and the
\* external program do in this call
display_sixel(w, title, levels, wr, ext) ==
    LET w1 == SixelPrintTitle(w, title)
    IN IF w1.exc # "" THEN w1 ELSE
       LET w2 == SixelTempName(w1)
           fn == w2.nextfn
           w3 == SixelImwrite(w2, fn, wr)
       IN IF w3.exc # "" THEN w3 ELSE
          IF ~levels.isint THEN Raise(w3, "TypeError") ELSE
          LET w4 == SixelSystem(w3, levels, fn, ext)
              w5 == SixelRemove(w4, fn)
          IN IF w5.exc # "" THEN w5 ELSE SixelPrintBlank(w5)

(***************************************************************************)
(* display: the pop-up window.                                             *)
(***************************************************************************)
display(w, title, delay, destroy) ==
    LET t == IF title = None THEN Argv0 ELSE title
        w1 == Emit(w, Ev("imshow", <<t>>, 0, 0, ""))
        w2 == Emit(w1, Ev("waitKey", <<>>, 0, delay, ""))
    IN IF destroy
       THEN Emit(w2, Ev("destroyWindow", <<t>>, 0, 0, ""))
       ELSE w2

(***************************************************************************)
(* The debug flag.                                                         *)
(***************************************************************************)
\* debug_set as it would be if it stored the opposite value
debug_set_negated(value) == ~value

\* debug_set: the new value of DEBUG
debug_set(value) == value

\* debugging ()
debugging(dbg) == dbg

\* debug_off / debug_on
debug_off == debug_set(FALSE)

debug_on == debug_set(TRUE)

(***************************************************************************)
(* ddisplay.  The result is the world after the call, with the branch      *)
(* taken ("skip", "sixel", "popup") and the levels passed to display_sixel.*)
(***************************************************************************)
Routed(w, route, depth) == [w |-> w, route |-> route, depth |-> depth]

\* ddisplay as it would be without the test of the debug flag
ddisplay_ungated(w, dbg, envt, sys, title, delay, destroy, wr, ext) ==
    IF InList(Chr_s16, envt) /\ sys # "Windows"
    THEN Routed(display_sixel(w, title, PyInt(16), wr, ext), "sixel", 16)
    ELSE IF InList(Chr_s256, envt) /\ sys # "Windows"
         THEN Routed(display_sixel(w, title, PyInt(256), wr, ext), "sixel", 256)
         ELSE Routed(display(w, title, delay, destroy), "popup", 0)

\* ddisplay as it would be with the two keyword tests in the other order
ddisplay_256first(w, dbg, envt, sys, title, delay, destroy, wr, ext) ==
    IF debugging(dbg)
    THEN IF InList(Chr_s256, envt) /\ sys # "Windows"
         THEN Routed(display_sixel(w, title, PyInt(256), wr, ext), "sixel", 256)
         ELSE IF InList(Chr_s16, envt) /\ sys # "Windows"
              THEN Routed(display_sixel(w, title, PyInt(16), wr, ext), "sixel", 16)
              ELSE Routed(display(w, title, delay, destroy), "popup", 0)
    ELSE Routed(w, "skip", 0)

ddisplay(w, dbg, envt, sys, title, delay, destroy, wr, ext) ==
    IF debugging(dbg)
    THEN IF InList(Chr_s16, envt) /\ sys # "Windows"
         THEN Routed(display_sixel(w, title, PyInt(16), wr, ext), "sixel", 16)
         ELSE IF InList(Chr_s256, envt) /\ sys # "Windows"
              THEN Routed(display_sixel(w, title, PyInt(256), wr, ext), "sixel", 256)
              ELSE Routed(display(w, title, delay, destroy), "popup", 0)
    ELSE Routed(w, "skip", 0)

(***************************************************************************)
(* The dispatcher as a state machine: the module is imported (Init), then  *)
(* its functions are called in any order.  last records the latest call:   *)
(* its arguments, the state it started from (pre), its log, the exception  *)
(* it raised and what it returned.                                         *)
(***************************************************************************)
Titles == {"t", None}

\* (delay, destroy) of a pop-up call: wait for a key and close the window
\* (the defaults), or show for 40 ms and keep the window
PopupArgs == {<<0, TRUE>>, <<40, FALSE>>}

\* imwrite's and the program's outcome in one call: the program can show
\* only a file that was written
Outcomes ==
    { o \in ImwriteOutcomes \X SystemOutcomes : o[1] # "written" => o[2] # "ok" }

Pre == [DEBUG |-> DEBUG, ENVIRONMENT |-> ENVIRONMENT, files |-> files]

Call(op, value, title, levels, route, depth, w) ==
    [op |-> op, value |-> value, title |-> title, levels |-> levels, route |-> route,
     depth |-> depth, log |-> w.log, exc |-> w.exc, fn |-> w.nextfn, pre |-> Pre]

NoText == [op |-> "none"]

Init ==
    /\ environ \in Environs
    /\ systype \in Systypes
    /\ DEBUG = InitDEBUG(environ)
    /\ ENVIRONMENT = InitENVIRONMENT(environ)
    /\ files = {}
    /\ nextfn = 0
    /\ last = [op |-> "import", value |-> FALSE, title |-> None, levels |-> PyNone,
               route |-> "", depth |-> 0, log |-> <<>>, exc |-> "", fn |-> 0,
               pre |-> [DEBUG |-> FALSE, ENVIRONMENT |-> <<>>, files |-> {}]]
    /\ fmt = NoText

Here == World(files, nextfn)

DebugSet ==
    \E value \in BOOLEAN :
        /\ DEBUG' = debug_set(value)
        /\ last' = Call("debug_set", value, None, PyNone, "", 0, Here)
        /\ UNCHANGED <<environ, systype, ENVIRONMENT, files, nextfn, fmt>>

DebugOff ==
    /\ DEBUG' = debug_off
    /\ last' = Call("debug_off", FALSE, None, PyNone, "", 0, Here)
    /\ UNCHANGED <<environ, systype, ENVIRONMENT, files, nextfn, fmt>>

DebugOn ==
    /\ DEBUG' = debug_on
    /\ last' = Call("debug_on", FALSE, None, PyNone, "", 0, Here)
    /\ UNCHANGED <<environ, systype, ENVIRONMENT, files, nextfn, fmt>>

Debugging ==
    /\ last' = Call("debugging", debugging(DEBUG), None, PyNone, "", 0, Here)
    /\ UNCHANGED <<environ, systype, DEBUG, ENVIRONMENT, files, nextfn, fmt>>

Ddisplay ==
    \E title \in Titles, a \in PopupArgs, o \in Outcomes :
        LET r == ddisplay(Here, DEBUG, ENVIRONMENT, systype, title, a[1], a[2],
                          o[1], o[2])
        IN /\ r.w.nextfn <= MaxTmp
           /\ files' = r.w.files
           /\ nextfn' = r.w.nextfn
           /\ last' = Call("ddisplay", FALSE, title, PyNone, r.route, r.depth, r.w)
           /\ UNCHANGED <<environ, systype, DEBUG, ENVIRONMENT, fmt>>

DisplaySixel ==
    \E title \in Titles \ {None}, levels \in {PyInt(16), PyInt(256), PyNone},
       o \in Outcomes :
        LET w == display_sixel(Here, title, levels, o[1], o[2])
        IN /\ w.nextfn <= MaxTmp
           /\ files' = w.files
           /\ nextfn' = w.nextfn
           /\ last' = Call("display_sixel", FALSE, title, levels, "sixel", levels.v, w)
           /\ UNCHANGED <<environ, systype, DEBUG, ENVIRONMENT, fmt>>

Display ==
    \E title \in Titles, a \in PopupArgs :
        LET w == display(Here, title, a[1], a[2])
        IN /\ files' = w.files
           /\ nextfn' = w.nextfn
           /\ last' = Call("display", FALSE, title, PyNone, "popup", 0, w)
           /\ UNCHANGED <<environ, systype, DEBUG, ENVIRONMENT, fmt>>

Next ==
    \/ DebugSet
    \/ DebugOff
    \/ DebugOn
    \/ Debugging
    \/ Ddisplay
    \/ DisplaySixel
    \/ Display

Spec == Init /\ [][Next]_vars

(***************************************************************************)
(* Images: a numpy array is its shape, its dtype and its elements, a       *)
(* function of the index tuples.                                           *)
(***************************************************************************)
\* the largest extent, the largest channel count, the largest centre
\* coordinate and the largest requested count of the small images and of
\* the calls made on them
MaxExtent == 3
MaxChan == 2
MaxAt == 3
MaxCount == 3

RECURSIVE Indices(_)
Indices(shape) ==
    IF shape = <<>> THEN {<<>>}
    ELSE { <<i>> \o t : i \in 0..(shape[1] - 1), t \in Indices(Tail(shape)) }

Array(shape, dtype, px) == [shape |-> shape, dtype |-> dtype, px |-> px]

\* a uint8 image whose samples vary with every index
Ramp(shape) ==
    Array(shape, "uint8",
          [t \in Indices(shape) |->
              LET k == (IF Len(t) > 0 THEN 101 * t[1] ELSE 0)
                       + (IF Len(t) > 1 THEN 37 * t[2] ELSE 0)
                       + (IF Len(t) > 2 THEN 59 * t[3] ELSE 0)
              IN (k + 7) % 256])

\* a signed integer array, as masks are, with values of 1 to 5 characters
Signed(shape) ==
    Array(shape, "int64",
          [t \in Indices(shape) |->
              LET k == (IF Len(t) > 0 THEN t[1] ELSE 0) + 2 * (IF Len(t) > 1 THEN t[2] ELSE 0)
                       + (IF Len(t) > 2 THEN t[3] ELSE 0)
              IN <<-1, 1, -1000, 255, 12345>>[(k % 5) + 1]])

\* numpy.array (rows, dtype=dtype) for a list of equally long rows
FromRows(rows, dtype) ==
    Array(<<Len(rows), Len(rows[1])>>, dtype,
          [t \in Indices(<<Len(rows), Len(rows[1])>>) |-> rows[t[1] + 1][t[2] + 1]])

arrowhead ==
    FromRows(<<
        <<0,   0,   0,   0,   0,   0,   0,   0,   0>>,
        <<0,   0,   0,   0, 255,   0,   0,   0,   0>>,
        <<0,   0,   0, 255, 255, 255,   0,   0,   0>>,
        <<0,   0, 255, 255, 255, 255, 255,   0,   0>>,
        <<0,   0,   0,   0, 255,   0,   0,   0,   0>>,
        <<0,   0,   0,   0, 255,   0,   0,   0,   0>>,
        <<0,   0,   0,   0, 255,   0,   0,   0,   0>>,
        <<0,   0,   0,   0, 255,   0,   0,   0,   0>>,
        <<0,   0,   0,   0, 255,   0,   0,   0,   0>>,
        <<0,   0,   0,   0,   0,   0,   0,   0,   0>>
    >>, "uint8")

\* create_mask: the array returned, or the ValueError raised
Returned(im) == [exc |-> "", msg |-> <<>>, im |-> im]

Raised(exc, msg) == [exc |-> exc, msg |-> msg, im |-> Array(<<>>, "", <<>>)]

\* create_mask as it would be if names were matched without regard to case
create_mask_nocase(name) ==
    IF name \in {"blur3", "Blur3"}
    THEN Returned(FromRows(<< <<1, 1, 1>>, <<1, 1, 1>>, <<1, 1, 1>> >>, "int64"))
    ELSE IF name = "blur5"
    THEN Returned(FromRows(<< <<1, 1, 1, 1, 1>>, <<1, 1, 1, 1, 1>>, <<1, 1, 1, 1, 1>>,
                              <<1, 1, 1, 1, 1>>, <<1, 1, 1, 1, 1>> >>, "int64"))
    ELSE IF name = "laplacian"
    THEN Returned(FromRows(<< <<1, 1, 1>>, <<1, -1, 1>>, <<1, 1, 1>> >>, "int64"))
    ELSE Raised("ValueError", <<"I don't know how to generate a '", name, "' mask!">>)

create_mask(name) ==
    IF name = "blur3"
    THEN Returned(FromRows(<< <<1, 1, 1>>, <<1, 1, 1>>, <<1, 1, 1>> >>, "int64"))
    ELSE IF name = "blur5"
    THEN Returned(FromRows(<< <<1, 1, 1, 1, 1>>, <<1, 1, 1, 1, 1>>, <<1, 1, 1, 1, 1>>,
                              <<1, 1, 1, 1, 1>>, <<1, 1, 1, 1, 1>> >>, "int64"))
    ELSE IF name = "laplacian"
    THEN Returned(FromRows(<< <<1, 1, 1>>, <<1, -1, 1>>, <<1, 1, 1>> >>, "int64"))
    ELSE Raised("ValueError", <<"I don't know how to generate a '", name, "' mask!">>)

(***************************************************************************)
(* describe.  The sentence is the concatenation of the fragments.          *)
(***************************************************************************)
\* describe as it would be with the two extents taken in the other order
describe_swapped(im, title) ==
    LET ns == Len(im.shape)
    IN IF ns = 2
       THEN [exc |-> "", msg |-> <<>>,
             text |-> <<title, " ", "is monochrome", " of size ">> \o FmtD(im.shape[2])
                      \o <<" rows x ">> \o FmtD(im.shape[1])
                      \o <<" columns with ", im.dtype, " pixels.">>]
       ELSE IF ns = 3
       THEN [exc |-> "", msg |-> <<>>,
             text |-> <<title, " ", "has ">> \o FmtD(im.shape[3]) \o <<" channels", " of size ">>
                      \o FmtD(im.shape[2]) \o <<" rows x ">> \o FmtD(im.shape[1])
                      \o <<" columns with ", im.dtype, " pixels.">>]
       ELSE [exc |-> "ValueError",
             msg |-> <<"I have a '">> \o FmtD(ns) \o <<"'-dimensional image!">>,
             text |-> <<>>]

describe(im, title) ==
    LET ns == Len(im.shape)
    IN IF ns = 2
       THEN [exc |-> "", msg |-> <<>>,
             text |-> <<title, " ", "is monochrome", " of size ">> \o FmtD(im.shape[1])
                      \o <<" rows x ">> \o FmtD(im.shape[2])
                      \o <<" columns with ", im.dtype, " pixels.">>]
       ELSE IF ns = 3
       THEN [exc |-> "", msg |-> <<>>,
             text |-> <<title, " ", "has ">> \o FmtD(im.shape[3]) \o <<" channels", " of size ">>
                      \o FmtD(im.shape[1]) \o <<" rows x ">> \o FmtD(im.shape[2])
                      \o <<" columns with ", im.dtype, " pixels.">>]
       ELSE [exc |-> "ValueError",
             msg |-> <<"I have a '">> \o FmtD(ns) \o <<"'-dimensional image!">>,
             text |-> <<>>]

(***************************************************************************)
(* examine.  The text is a sequence of characters.                         *)
(***************************************************************************)
\* the default of rows and of cols
DefaultCount == 15

Max(a, b) == IF a >= b THEN a ELSE b

Min(a, b) == IF a <= b THEN a ELSE b

\* "%5d" % n
Fmt5D(n) == LET d == FmtD(n) IN IF Len(d) >= 5 THEN d ELSE Rep(" ", 5 - Len(d)) \o d

\* the low end as it would be with the half count rounded up
ClipLo_roundup(at, count) == Max(at - ((count + 1) \div 2), 0)

\* lines 462 and 466: the low end of the window in one dimension
ClipLo(at, count) == Max(at - (count \div 2), 0)

\* lines 463 and 467: its high end
ClipHi(lo, count, extent) == Min(lo + count, extent)

\* line 479
Start == Rep(" ", 7)

\* lines 481-482: the column indices
HeaderLine(xlo, xhi) == Concat([k \in 1..(xhi - xlo) |-> Fmt4D(xlo + k - 1)])

\* line 474
Channels(nc) ==
    IF nc = 0 THEN <<"m", "o", "n", "o", "c", "h", "r", "o", "m", "e">> ELSE FmtD(nc) \o <<"-", "c", "h", "a", "n", "n", "e", "l">>

\* lines 475-476
Summary(rows, cols, ny, nx, nc, aty, atx) ==
    <<"[">> \o FmtD(rows) \o <<" ", "x", " ">> \o FmtD(cols) \o <<" ", "r", "e", "g", "i", "o", "n", " ", "o", "f", " ">>
    \o FmtD(ny) \o <<" ", "x", " ">> \o FmtD(nx) \o <<"-", "p", "i", "x", "e", "l", " ">> \o Channels(nc)
    \o <<" ", "i", "m", "a", "g", "e", " ", "a", "t", " ", "(">> \o FmtD(aty) \o <<",">> \o FmtD(atx) \o <<")", "]", ":", "\n">>

\* im[y,x] (c < 0) or im[y,x,c]
Sample(im, y, x, c) == IF c < 0 THEN im.px[<<y, x>>] ELSE im.px[<<y, x, c>>]

\* lines 499-501 and 506-508: the samples of row y (of channel c) and "\n"
PixelLine(im, y, xlo, xhi, c) ==
    Concat([k \in 1..(xhi - xlo) |-> Fmt4D(Sample(im, y, xlo + k - 1, c))]) \o <<"\n">>

\* lines 496-508: the lines of row y
RowLines(im, nc, y, xlo, xhi) ==
    Fmt5D(y) \o <<"|", " ">> \o
    (IF nc = 0
     THEN PixelLine(im, y, xlo, xhi, 0 - 1)
     ELSE Concat([c \in 1..nc |->
              (IF c - 1 > 0 THEN SubSeq(Start, 1, Len(Start) - 2) \o <<"|", " ">>
               ELSE <<>>)
              \o PixelLine(im, y, xlo, xhi, c - 1)]))

\* a title that is a string of characters, and no title
PyStr(s) == [isnone |-> FALSE, s |-> s]
NoTitle == [isnone |-> TRUE, s |-> <<>>]

\* examine (im, aty, atx, rows, cols, title); aty and atx are PyNone or an
\* int, title is NoTitle or a string
examine(im, aty0, atx0, rows0, cols0, title) ==
    LET ny == im.shape[1]
        nx == im.shape[2]
        nc == IF Len(im.shape) < 3 THEN 0 ELSE im.shape[3]
        aty == IF ~aty0.isint THEN ny \div 2 ELSE aty0.v
        atx == IF ~atx0.isint THEN nx \div 2 ELSE atx0.v
        ylo == ClipLo(aty, rows0)
        yhi == ClipHi(ylo, rows0, ny)
        rows == yhi - ylo
        xlo == ClipLo(atx, cols0)
        xhi == ClipHi(xlo, cols0, nx)
        cols == xhi - xlo
        line == HeaderLine(xlo, xhi)
        text0 == IF ~title.isnone THEN title.s \o <<"\n">> ELSE <<>>
        text1 == text0 \o Summary(rows, cols, ny, nx, nc, aty, atx)
        text2 == text1 \o Start \o line \o <<"\n">> \o Start \o Rep("-", Len(line)) \o <<"\n">>
        body == Concat([k \in 1..(yhi - ylo) |-> RowLines(im, nc, ylo + k - 1, xlo, xhi)])
    IN [aty |-> aty, atx |-> atx, ylo |-> ylo, yhi |-> yhi, rows |-> rows,
        xlo |-> xlo, xhi |-> xhi, cols |-> cols, text |-> text2 \o body]

(***************************************************************************)
(* The text helpers as a state machine: a behaviour is one call of         *)
(* examine, describe or create_mask on inputs drawn from the sets below    *)
(* (the functions read no state and change none, so a second call has      *)
(* nothing to add); fmt holds the call and what it returned.               *)
(***************************************************************************)
SmallShapes ==
    { <<ny, nx>> : ny \in 1..MaxExtent, nx \in 1..MaxExtent }
    \cup { <<n, n, c>> : n \in 1..MaxExtent, c \in 1..MaxChan }

SmallImages ==
    { Ramp(sh) : sh \in SmallShapes }
    \cup { Signed(<<MaxExtent, 2>>), Signed(<<1, 2, MaxChan>>) }

MaskNames == {"blur3", "blur5", "laplacian"}

Fixtures == {arrowhead} \cup { create_mask(n).im : n \in MaskNames }

\* images about as large as the default window
BigImages == { Ramp(<<DefaultCount + a, DefaultCount + b>>) : a \in 0..1, b \in 0..1 }

\* arrays that are no images: of rank 0, 1 and 4
OddRank == { Ramp(<<>>), Ramp(<<2>>), Ramp(<<1, 2, 1, 2>>) }

Ats == {PyNone} \cup { PyInt(a) : a \in (0 - 1)..MaxAt }

Counts == 0..MaxCount

ExamineTitles == {NoTitle, PyStr(<<"T">>)}

DescribeTitles == {"Image", "This image"}

RequestedNames == MaskNames \cup {"whatsit", "Blur3", ""}

ExamineCall(im, aty0, atx0, rows0, cols0, title, form) ==
    [op |-> "examine", form |-> form, shape |-> im.shape, dtype |-> im.dtype,
     aty0 |-> aty0, atx0 |-> atx0, rows0 |-> rows0, cols0 |-> cols0, title |-> title,
     r |-> examine(im, aty0, atx0, rows0, cols0, title)]

InitText ==
    /\ environ = [present |-> FALSE, val |-> <<>>]
    /\ systype = "Linux"
    /\ DEBUG = InitDEBUG(environ)
    /\ ENVIRONMENT = InitENVIRONMENT(environ)
    /\ files = {}
    /\ nextfn = 0
    /\ last = [op |-> "import", value |-> FALSE, title |-> None, levels |-> PyNone,
               route |-> "", depth |-> 0, log |-> <<>>, exc |-> "", fn |-> 0,
               pre |-> [DEBUG |-> FALSE, ENVIRONMENT |-> <<>>, files |-> {}]]
    /\ fmt = NoText

\* examine (im, aty, atx, rows, cols)
Examine ==
    \E im \in SmallImages, aty0 \in Ats, atx0 \in Ats, rows0 \in Counts, cols0 \in Counts :
        /\ fmt = NoText
        /\ fmt' = ExamineCall(im, aty0, atx0, rows0, cols0, NoTitle, "window")
        /\ UNCHANGED <<environ, systype, DEBUG, ENVIRONMENT, files, nextfn, last>>

\* examine (im) and examine (im, title=title)
ExamineImage ==
    \E im \in SmallImages \cup Fixtures \cup BigImages, title \in ExamineTitles :
        /\ fmt = NoText
        /\ fmt' = ExamineCall(im, PyNone, PyNone, DefaultCount, DefaultCount, title, "image")
        /\ UNCHANGED <<environ, systype, DEBUG, ENVIRONMENT, files, nextfn, last>>

Describe ==
    \E im \in SmallImages \cup Fixtures \cup OddRank, title \in DescribeTitles :
        /\ fmt = NoText
        /\ fmt' = [op |-> "describe", shape |-> im.shape, dtype |-> im.dtype,
                   title |-> title, r |-> describe(im, title)]
        /\ UNCHANGED <<environ, systype, DEBUG, ENVIRONMENT, files, nextfn, last>>

CreateMask ==
    \E name \in RequestedNames :
        /\ fmt = NoText
        /\ fmt' = [op |-> "create_mask", name |-> name, r |-> create_mask(name)]
        /\ UNCHANGED <<environ, systype, DEBUG, ENVIRONMENT, files, nextfn, last>>

NextText ==
    \/ Examine
    \/ ExamineImage
    \/ Describe
    \/ CreateMask

SpecText == InitText /\ [][NextText]_vars

(***************************************************************************)
(* Properties of the dispatcher, checked under Spec.                       *)
(***************************************************************************)
\* the latest call ran display_sixel (from ddisplay or directly)
RanSixel == last.op \in {"ddisplay", "display_sixel"} /\ last.route = "sixel"

HasKeyword(k) == InList(k, ENVIRONMENT)

LogHas(ev) == \E i \in 1..Len(last.log) : last.log[i].ev = ev

\* the file events of the latest call, in order
FileEvents ==
    SelectSeq(last.log, LAMBDA e : e.ev \in {"create", "unlink", "imwrite", "system", "remove"})

\* C1: a ddisplay call made while the debug flag is false does nothing: it
\* takes the skip branch, has no effect at all (no window, no print, no
\* temporary file, no program run), raises nothing and leaves the files and
\* the flag as they were, whatever the keywords and the OS.
C1_NoOpWhenNotDebugging ==
    (last.op = "ddisplay" /\ ~last.pre.DEBUG) =>
        /\ last.route = "skip"
        /\ last.log = <<>>
        /\ last.exc = ""
        /\ files = last.pre.files
        /\ DEBUG = last.pre.DEBUG

C1_Witness ==
    /\ last.op = "ddisplay"
    /\ ~last.pre.DEBUG
    /\ HasKeyword(Chr_s16)
    /\ HasKeyword(Chr_s256)
    /\ systype = "Linux"
    /\ last.log = <<>>

\* C2: with the debug flag true, ddisplay takes exactly one route, decided
\* by the keywords and the OS: display_sixel with 16 levels when sixel16 is
\* set and the OS is not Windows; else display_sixel with 256 levels when
\* sixel256 is set and the OS is not Windows; else the pop-up.  The effects
\* are those of that route only, and the command run carries that depth.
C2_Route ==
    (last.op = "ddisplay" /\ last.pre.DEBUG) =>
        /\ systype = "Windows" => last.route = "popup"
        /\ (systype # "Windows" /\ HasKeyword(Chr_s16)) =>
               (last.route = "sixel" /\ last.depth = 16)
        /\ (systype # "Windows" /\ ~HasKeyword(Chr_s16) /\ HasKeyword(Chr_s256)) =>
               (last.route = "sixel" /\ last.depth = 256)
        /\ (~HasKeyword(Chr_s16) /\ ~HasKeyword(Chr_s256)) => last.route = "popup"
        /\ last.route = "popup" =>
               /\ last.log # <<>>
               /\ \A i \in 1..Len(last.log) :
                      last.log[i].ev \in {"imshow", "waitKey", "destroyWindow"}
        /\ last.route = "sixel" =>
               \A i \in 1..Len(last.log) :
                   /\ last.log[i].ev \notin {"imshow", "waitKey", "destroyWindow"}
                   /\ last.log[i].ev = "system" =>
                          last.log[i].text =
                              <<"img2sixel -p ">> \o FmtD(last.depth) \o <<" ">>
                              \o TmpName(last.log[i].fn) \o <<" 2>/dev/null">>

C2_Witness ==
    /\ last.op = "ddisplay"
    /\ last.pre.DEBUG
    /\ HasKeyword(Chr_s16)
    /\ HasKeyword(Chr_s256)
    /\ systype # "Windows"
    /\ last.depth = 16
    /\ LogHas("system")

\* C3: on every exit path of display_sixel, no temporary file the call
\* created or wrote still exists.
C3_TempFileAlwaysDeleted ==
    RanSixel =>
        \A i \in 1..Len(last.log) :
            last.log[i].ev \in {"create", "imwrite"} => last.log[i].fn \notin files

\* C4: an execution of display_sixel that takes a temporary file creates
\* it, writes it, has the program read it and deletes it, in that order and
\* each exactly once, and the file exists when it is written, read and
\* deleted.
C4_Lifecycle ==
    (RanSixel /\ FileEvents # <<>>) =>
        /\ [i \in 1..Len(FileEvents) |-> FileEvents[i].ev]
               = <<"create", "imwrite", "system", "remove">>
        /\ \A i \in 2..Len(FileEvents) : FileEvents[i].n = 1

\* C5: when the external program is missing or exits with an error,
\* display_sixel raises nothing, has printed the title line before running
\* the program and prints the blank line after it, and leaves the debug
\* flag and the keywords as they were.
C5_ProgramFailureSwallowed ==
    RanSixel =>
        \A i \in 1..Len(last.log) :
            (last.log[i].ev = "system" /\ last.log[i].res \in {"missing", "error"}) =>
                /\ last.exc = ""
                /\ \E j \in 1..(i - 1) :
                       last.log[j].ev = "print" /\ last.log[j].text = <<last.title, ":">>
                /\ i < Len(last.log)
                /\ last.log[Len(last.log)].ev = "print"
                /\ last.log[Len(last.log)].text = <<>>
                /\ DEBUG = last.pre.DEBUG
                /\ ENVIRONMENT = last.pre.ENVIRONMENT

\* the words the SXCV value was made of
WordsOf(env) ==
    CHOOSE ws \in UNION { [1..n -> RawWords] : n \in 0..MaxWords } : JoinWords(ws, 1) = env.val

\* C6: the debug flag is a last-write-wins register.  After the import it
\* is true exactly when a word of SXCV is "debug" in any case (false, with
\* no keywords, when SXCV is absent), and the keywords are the lower-cased
\* words; debug_set(v), debug_on() and debug_off() leave it v, true and
\* false; debugging() returns it; no other call changes it, and no call
\* changes the keywords.
C6_LastWriteWins ==
    /\ ENVIRONMENT =
           IF environ.present
           THEN [i \in 1..Len(WordsOf(environ)) |-> Lower(WordsOf(environ)[i])]
           ELSE <<>>
    /\ last.op = "import" =>
           DEBUG = (/\ environ.present
                    /\ \E i \in 1..Len(WordsOf(environ)) : Lower(WordsOf(environ)[i]) = Chr_d)
    /\ last.op = "debug_set" => DEBUG = last.value
    /\ last.op = "debug_on" => DEBUG = TRUE
    /\ last.op = "debug_off" => DEBUG = FALSE
    /\ last.op = "debugging" => last.value = last.pre.DEBUG
    /\ last.op \in {"debugging", "ddisplay", "display_sixel", "display"} =>
           DEBUG = last.pre.DEBUG
    /\ last.op # "import" => ENVIRONMENT = last.pre.ENVIRONMENT

C6_Witness ==
    /\ last.op = "debugging"
    /\ last.value = FALSE
    /\ InitDEBUG(environ)
    /\ Len(ENVIRONMENT) = 2

(***************************************************************************)
(* Properties of examine and describe, checked under SpecText.             *)
(***************************************************************************)
IsExamine == fmt.op = "examine"

\* C7: whatever the centre and the requested counts, the window of examine
\* satisfies 0 <= lo <= hi <= extent in each dimension, its realized extent
\* is hi - lo, never negative and never more than the image's, and every
\* element read lies inside the image.
C7_WindowInsideImage ==
    IsExamine =>
        /\ 0 <= fmt.r.ylo /\ fmt.r.ylo <= fmt.r.yhi /\ fmt.r.yhi <= fmt.shape[1]
        /\ 0 <= fmt.r.xlo /\ fmt.r.xlo <= fmt.r.xhi /\ fmt.r.xhi <= fmt.shape[2]
        /\ fmt.r.rows = fmt.r.yhi - fmt.r.ylo
        /\ fmt.r.cols = fmt.r.xhi - fmt.r.xlo
        /\ 0 <= fmt.r.rows /\ fmt.r.rows <= fmt.shape[1]
        /\ 0 <= fmt.r.cols /\ fmt.r.cols <= fmt.shape[2]
        /\ \A y \in fmt.r.ylo..(fmt.r.yhi - 1) : 0 <= y /\ y < fmt.shape[1]
        /\ \A x \in fmt.r.xlo..(fmt.r.xhi - 1) : 0 <= x /\ x < fmt.shape[2]

\* enough margin on both sides of centre c for r elements in an extent of n
Margin(n, c, r) == c - (r \div 2) >= 0 /\ c - (r \div 2) + r <= n

\* C8 as stated, in one dimension: with the margin the window is
\* [c - r//2, c - r//2 + r); without it the window is smaller than r and
\* touches the boundary.
C8Stated(n, c, r, lo, hi) ==
    (0 <= c /\ c < n /\ r >= 0) =>
        IF Margin(n, c, r)
        THEN lo = c - (r \div 2) /\ hi = c - (r \div 2) + r
        ELSE hi - lo < r /\ (lo = 0 \/ hi = n)

\* C8 as amended, in one dimension: without the margin the window touches
\* the boundary and is at most r, smaller than r exactly when lo + r > n;
\* when the margin is missing on the low side the window starts at 0 and
\* ends at the smaller of r and n.
C8Amended(n, c, r, lo, hi) ==
    (0 <= c /\ c < n /\ r >= 0) =>
        IF Margin(n, c, r)
        THEN lo = c - (r \div 2) /\ hi = c - (r \div 2) + r
        ELSE /\ lo = 0 \/ hi = n
             /\ hi - lo <= r
             /\ hi - lo < r <=> lo + r > n
             /\ c - (r \div 2) < 0 => (lo = 0 /\ hi = (IF r <= n THEN r ELSE n))

\* C8 (as stated): for a centre inside the image and a count r >= 0, the
\* window of each dimension is exactly [c - r//2, c - r//2 + r) when there is
\* margin on both sides, and otherwise shrinks (realized size < r) and
\* touches the image boundary.
C8_CentredOrShrunk ==
    IsExamine =>
        /\ C8Stated(fmt.shape[1], fmt.r.aty, fmt.rows0, fmt.r.ylo, fmt.r.yhi)
        /\ C8Stated(fmt.shape[2], fmt.r.atx, fmt.cols0, fmt.r.xlo, fmt.r.xhi)

\* C8 (amended): for a centre inside the image and a count r >= 0, the
\* window of each dimension is exactly [c - r//2, c - r//2 + r) when there is
\* margin on both sides; otherwise it touches the image boundary (lo = 0 or
\* hi = n) and its realized size is at most r, smaller than r exactly when
\* lo + r > n; a window lacking margin on the low side starts at 0 and is
\* [0, r), of the requested size, when r <= n, and the whole extent [0, n),
\* smaller than r, when r > n.
C8_CentredOrClipped ==
    IsExamine =>
        /\ C8Amended(fmt.shape[1], fmt.r.aty, fmt.rows0, fmt.r.ylo, fmt.r.yhi)
        /\ C8Amended(fmt.shape[2], fmt.r.atx, fmt.cols0, fmt.r.xlo, fmt.r.xhi)

\* the two cases of a window that lacks margin on the low side: the rows
\* keep the requested count (r <= n), the columns are the whole extent,
\* fewer than requested (r > n)
C8_Witness ==
    /\ IsExamine
    /\ fmt.form = "window"
    /\ 0 <= fmt.r.aty /\ fmt.r.aty < fmt.shape[1]
    /\ fmt.r.aty - (fmt.rows0 \div 2) < 0
    /\ fmt.rows0 > 0 /\ fmt.rows0 <= fmt.shape[1]
    /\ fmt.r.ylo = 0
    /\ fmt.r.rows = fmt.rows0
    /\ 0 <= fmt.r.atx /\ fmt.r.atx < fmt.shape[2]
    /\ fmt.r.atx - (fmt.cols0 \div 2) < 0
    /\ fmt.cols0 > fmt.shape[2]
    /\ fmt.r.xlo = 0
    /\ fmt.r.cols = fmt.shape[2]
    /\ fmt.r.cols < fmt.cols0

\* C9: called with an image only, examine centres the window on
\* (ny // 2, nx // 2) and reports the whole image: ny x nx, every row and
\* every column.
C9_DefaultsCoverImage ==
    (IsExamine /\ fmt.form = "image") =>
        /\ fmt.r.aty = fmt.shape[1] \div 2
        /\ fmt.r.atx = fmt.shape[2] \div 2
        /\ fmt.r.rows = fmt.shape[1]
        /\ fmt.r.cols = fmt.shape[2]
        /\ fmt.r.ylo = 0 /\ fmt.r.yhi = fmt.shape[1]
        /\ fmt.r.xlo = 0 /\ fmt.r.xhi = fmt.shape[2]

\* the value of a decimal digit, and of a string of digits (-1 when the
\* string is not one)
DigitValue(c) ==
    IF \E k \in 0..9 : Digit(k) = c THEN CHOOSE k \in 0..9 : Digit(k) = c ELSE 0 - 1

RECURSIVE ParseNat(_)
ParseNat(ds) ==
    IF ds = <<>> THEN 0 - 1
    ELSE IF Len(ds) = 1 THEN DigitValue(ds[1])
    ELSE LET hd == ParseNat(SubSeq(ds, 1, Len(ds) - 1))
             d == DigitValue(ds[Len(ds)])
         IN IF hd < 0 \/ d < 0 THEN 0 - 1 ELSE 10 * hd + d

\* the place of fragment f in text (0 when absent)
Place(text, f) ==
    IF \E i \in 1..Len(text) : text[i] = f
    THEN CHOOSE i \in 1..Len(text) : text[i] = f /\ \A j \in 1..(i - 1) : text[j] # f
    ELSE 0

\* the number written between fragments a and b of text
NumberBetween(text, a, b) ==
    IF Place(text, a) = 0 \/ Place(text, b) = 0 THEN 0 - 1
    ELSE ParseNat(SubSeq(text, Place(text, a) + 1, Place(text, b) - 1))

\* C10: describe raises ValueError, carrying the rank, exactly when the
\* rank is neither 2 nor 3; for rank 2 it returns the "is monochrome"
\* sentence, for rank 3 the "has N channels" sentence with N the last
\* extent; the sentence begins with the title and holds the first extent as
\* the rows, the second as the columns, and the dtype.
C10_Describe ==
    fmt.op = "describe" =>
        LET rank == Len(fmt.shape)
            text == fmt.r.text
        IN /\ fmt.r.exc = "ValueError" <=> rank \notin {2, 3}
           /\ fmt.r.exc \in {"", "ValueError"}
           /\ fmt.r.exc = "ValueError" =>
                  /\ text = <<>>
                  /\ NumberBetween(fmt.r.msg, "I have a '", "'-dimensional image!") = rank
           /\ fmt.r.exc = "" =>
                  /\ text[1] = fmt.title
                  /\ NumberBetween(text, " of size ", " rows x ") = fmt.shape[1]
                  /\ NumberBetween(text, " rows x ", " columns with ") = fmt.shape[2]
                  /\ SubSeq(text, Len(text) - 1, Len(text)) = <<fmt.dtype, " pixels.">>
                  /\ rank = 2 =>
                         SubSeq(text, 2, 4) = <<" ", "is monochrome", " of size ">>
                  /\ rank = 3 =>
                         /\ SubSeq(text, 2, 3) = <<" ", "has ">>
                         /\ NumberBetween(text, "has ", " channels") = fmt.shape[3]
                         /\ Place(text, " of size ") = Place(text, " channels") + 1
           /\ (fmt.shape = <<10, 9>> /\ fmt.dtype = "uint8" /\ fmt.title = "This image") =>
                  text = <<"This image", " ", "is monochrome", " of size ", "1", "0",
                           " rows x ", "9", " columns with ", "uint8", " pixels.">>

\* a colour image with fewer rows than columns and than channels
C10_Witness ==
    /\ fmt.op = "describe"
    /\ Len(fmt.shape) = 3
    /\ fmt.shape[1] < fmt.shape[2]
    /\ fmt.shape[1] < fmt.shape[3]
    /\ fmt.r.exc = ""
    /\ Place(fmt.r.text, "has ") = 3

(***************************************************************************)
(* Properties of create_mask and of the text of examine, checked under     *)
(* SpecText.                                                               *)
(***************************************************************************)
\* an n x n array whose elements are all 1, but for the centre when it is given
SquareOfOnes(im, n, centre) ==
    /\ im.shape = <<n, n>>
    /\ DOMAIN im.px = Indices(<<n, n>>)
    /\ \A t \in Indices(<<n, n>>) :
           im.px[t] = (IF t = <<n \div 2, n \div 2>> THEN centre ELSE 1)

NoArray(im) == im.shape = <<>> /\ im.px = <<>> /\ im.dtype = ""

\* C11: create_mask returns for "blur3" a 3x3 integer array of ones, for
\* "blur5" a 5x5 integer array of ones, for "laplacian" a 3x3 integer array
\* of ones with -1 at the centre, and raises nothing; for every other name,
\* one that differs from these in case only included, it raises ValueError
\* with the message "I don't know how to generate a '<name>' mask!" holding
\* the name as it was given, and returns no array.
C11_CreateMask ==
    fmt.op = "create_mask" =>
        LET r == fmt.r
        IN /\ r.exc \in {"", "ValueError"}
           /\ r.exc = "" <=> fmt.name \in {"blur3", "blur5", "laplacian"}
           /\ fmt.name = "blur3" => SquareOfOnes(r.im, 3, 1)
           /\ fmt.name = "blur5" => SquareOfOnes(r.im, 5, 1)
           /\ fmt.name = "laplacian" => SquareOfOnes(r.im, 3, 0 - 1)
           /\ r.exc = "" => r.im.dtype = "int64" /\ r.msg = <<>>
           /\ r.exc = "ValueError" =>
                  /\ NoArray(r.im)
                  /\ Len(r.msg) = 3
                  /\ r.msg[1] = "I don't know how to generate a '"
                  /\ r.msg[2] = fmt.name
                  /\ r.msg[3] = "' mask!"

\* a name that differs from a supported one in case only is refused
C11_Witness ==
    /\ fmt.op = "create_mask"
    /\ fmt.name = "Blur3"
    /\ fmt.r.exc = "ValueError"
    /\ fmt.r.msg[2] = "Blur3"

\* the lines of a text, each without its "\n"
RECURSIVE TextLines(_)
TextLines(text) ==
    IF text = <<>> THEN <<>>
    ELSE IF \A i \in 1..Len(text) : text[i] # "\n" THEN <<text>>
    ELSE LET i == CHOOSE i \in 1..Len(text) :
                      text[i] = "\n" /\ \A j \in 1..(i - 1) : text[j] # "\n"
         IN <<SubSeq(text, 1, i - 1)>> \o TextLines(SubSeq(text, i + 1, Len(text)))

\* s is a decimal integer, with "-" in front when negative
IsNumber(s) ==
    /\ s # <<>>
    /\ LET ds == IF s[1] = "-" THEN Tail(s) ELSE s
       IN ds # <<>> /\ \A i \in 1..Len(ds) : DigitValue(ds[i]) >= 0

NumberValue(s) == IF s[1] = "-" THEN 0 - ParseNat(Tail(s)) ELSE ParseNat(s)

\* f is a field of w characters: an integer with spaces before it
IsField(f, w) ==
    /\ Len(f) = w
    /\ \E k \in 0..(w - 1) :
           /\ \A i \in 1..k : f[i] = " "
           /\ IsNumber(SubSeq(f, k + 1, w))

FieldValue(f) ==
    LET k == CHOOSE k \in 0..(Len(f) - 1) :
                 (\A i \in 1..k : f[i] = " ") /\ f[k + 1] # " "
    IN NumberValue(SubSeq(f, k + 1, Len(f)))

\* the k-th field of 4 characters after the 7 characters that begin a line
FieldOf(line, k) == SubSeq(line, 7 + 4 * (k - 1) + 1, 7 + 4 * k)

\* C12: the text of examine is made of lines: the title line when a title
\* is given, one summary line, one header line of the column indices
\* xlo..xhi-1 in fields of 4 characters, one rule of as many "-" as the
\* header is wide (4 x the realized columns), then for a monochrome image
\* one line per realized row, and for an image of N channels N lines per
\* realized row of which the first begins with the row index and the
\* others with the continuation marker; every body line holds one
\* right-justified field of 4 characters per realized column.
C12_TextStructure ==
    IsExamine =>
        LET lines == TextLines(fmt.r.text)
            t == IF fmt.title.isnone THEN 0 ELSE 1
            per == IF Len(fmt.shape) < 3 THEN 1 ELSE fmt.shape[3]
            rows == fmt.r.rows
            cols == fmt.r.cols
        IN /\ fmt.r.text # <<>> /\ fmt.r.text[Len(fmt.r.text)] = "\n"
           /\ Len(lines) = t + 3 + rows * per
           /\ t = 1 => lines[1] = fmt.title.s
           /\ LET sum == lines[t + 1]
              IN sum[1] = "[" /\ SubSeq(sum, Len(sum) - 1, Len(sum)) = <<"]", ":">>
           /\ LET hdr == lines[t + 2]
              IN /\ Len(hdr) = 7 + 4 * cols
                 /\ \A i \in 1..7 : hdr[i] = " "
                 /\ \A k \in 1..cols :
                        /\ IsField(FieldOf(hdr, k), 4)
                        /\ FieldValue(FieldOf(hdr, k)) = fmt.r.xlo + k - 1
           /\ LET rule == lines[t + 3]
              IN /\ Len(rule) = 7 + 4 * cols
                 /\ \A i \in 1..7 : rule[i] = " "
                 /\ \A i \in 8..Len(rule) : rule[i] = "-"
           /\ \A j \in 1..(rows * per) :
                  LET line == lines[t + 3 + j]
                      y == fmt.r.ylo + ((j - 1) \div per)
                      sub == (j - 1) % per
                  IN /\ Len(line) = 7 + 4 * cols
                     /\ SubSeq(line, 6, 7) = <<"|", " ">>
                     /\ IF sub = 0
                        THEN /\ IsField(SubSeq(line, 1, 5), 5)
                             /\ FieldValue(SubSeq(line, 1, 5)) = y
                        ELSE \A i \in 1..5 : line[i] = " "
                     /\ \A k \in 1..cols : IsField(FieldOf(line, k), 4)

=============================================================================
